---------------------------- MODULE Spec2Model ----------------------------
(***************************************************************************)
(* Model of the classroom WhatsApp assistant, in its two implementations:  *)
(*   impl = "main"  src/main.py                                            *)
(*   impl = "adk"   src/main-adk-inmemoryserssionservice.py                *)
(* Strings the code inspects character by character (phone numbers,        *)
(* message bodies, recipient identifiers) are sequences of one-character   *)
(* strings.  The external services (spreadsheet, LLM, WhatsApp client,     *)
(* ADK session service) are inputs of the actions: each call succeeds or   *)
(* raises, chosen with \E.                                                 *)
(***************************************************************************)
EXTENDS Integers, Sequences, FiniteSets

\* ------------------------------------------------------------------ bounds
\* Days the wall clock runs through (the date of datetime.now()).
MaxDay == 3
\* Inbound messages delivered to the callback in one process lifetime.
MaxMsgs == 2
\* Cron-triggered push runs in one process lifetime (after the startup push).
MaxPush == 1

VARIABLES
    impl,             \* which of the two programs runs
    pc,               \* "boot", "startpush", "running", "crashed"
    crash,            \* why the process died at startup ("" while alive)
    today,            \* the day datetime.now() reports
    data,             \* adk: module-level lesson read at import (<<>> = unset)
    chat_pool,        \* main: jid -> Gemini chat session
    session_service,  \* adk: jid -> ADK session (InMemorySessionService)
    nextId,           \* identity of the next session object constructed
    nMsgs,            \* inbound messages delivered so far
    nPush,            \* cron push runs so far
    last,             \* what the operation that ran last did (observation)
    used,             \* history: jid -> the session its first forwarded
                      \* message was sent to
    onLoop,           \* what the thread of the asyncio loop is executing
    onClient,         \* what the WhatsApp client's thread is executing
    queue             \* adk: coroutines handed to the loop, not yet started

vars == <<impl, pc, crash, today, data, chat_pool, session_service,
          nextId, nMsgs, nPush, last, used, onLoop, onClient, queue>>

\* Where each thread is.
sched == <<onLoop, onClient, queue>>

\* --------------------------------------------------------------- constants
USER_ID_HEADER == <<"9", "1">>
JID_SUFFIX == <<"@c.us">>

NoClassReply == "No class today - enjoy your break"
MainApology == "Sorry, I hit a snag. Please try again?"
AdkNoFinal == "I couldn't generate a response. Please try again."
AdkLlmError == "I encountered an error processing your request."
AdkHandlerError == "Sorry, I encountered an error."
WordsReply == "Please send your question in words so I can help you better"
LlmAnswer == "<text generated by the model>"

Digits == {"0", "1", "2", "3", "4", "5", "6", "7", "8", "9"}
Whitespace == {" ", "\n", "\t"}

\* ------------------------------------------------------------ spreadsheet
\* The "Course Plan" sheet: one row per scheduled lesson.  Day 2 and the days
\* after day 3 have no row; day 1 has two rows (the first match wins).
CourseSheet ==
    << [date |-> 1, topic |-> "Photosynthesis", class |-> "7A",
        teacher |-> "Ms. Rao", subject |-> "Science"],
       [date |-> 3, topic |-> "Fractions", class |-> "8B",
        teacher |-> "Mr. Das", subject |-> "Maths"],
       [date |-> 1, topic |-> "Respiration", class |-> "8B",
        teacher |-> "Mr. Das", subject |-> "Science"] >>

\* A cell of the "Student" sheet is an int (a numeric cell) or a str.
IntCell(n) == [kind |-> "int", int |-> n, chars |-> <<>>]
StrCell(cs) == [kind |-> "str", int |-> 0, chars |-> cs]

\* The "Student" sheet.
StudentSheet ==
    << [name |-> "Asha", class |-> "7A", number |-> IntCell(9876)],
       [name |-> "Ravi", class |-> "7A",
        number |-> StrCell(<<"+", "9", "1", "1", "2", "3", "4", "5", "6",
                             "7", "8", "9", "0">>)],
       [name |-> "Mina", class |-> "8B",
        number |-> StrCell(<<"+", "+", "9", "8", "-", "7", "6">>)] >>

DigitChar == <<"0", "1", "2", "3", "4", "5", "6", "7", "8", "9">>

RECURSIVE Decimal(_)
\* The decimal digits of a natural number.
Decimal(n) ==
    IF n < 10 THEN <<DigitChar[n + 1]>>
    ELSE Decimal(n \div 10) \o <<DigitChar[(n % 10) + 1]>>

\* str(x): the decimal digits of an int, the string itself for a str.
Str(cell) == IF cell.kind = "int" THEN Decimal(cell.int) ELSE cell.chars

RECURSIVE LStrip(_, _)
\* s.lstrip(chars): drop leading characters that are in chars.
LStrip(s, chars) ==
    IF s = <<>> THEN s
    ELSE IF Head(s) \in chars THEN LStrip(Tail(s), chars) ELSE s

RECURSIVE RStrip(_, _)
RStrip(s, chars) ==
    IF s = <<>> THEN s
    ELSE IF s[Len(s)] \in chars THEN RStrip(SubSeq(s, 1, Len(s) - 1), chars)
    ELSE s

\* s.strip(): drop leading and trailing whitespace.
Strip(s) == RStrip(LStrip(s, Whitespace), Whitespace)

RECURSIVE FirstMatch(_, _)
\* today_topic: the first row whose date is today, as <<lesson>>; <<>> = None.
FirstMatch(rows, day) ==
    IF rows = <<>> THEN <<>>
    ELSE IF Head(rows).date = day
         THEN << [topic |-> Head(rows).topic, class |-> Head(rows).class,
                  teacher |-> Head(rows).teacher,
                  subject |-> Head(rows).subject] >>
         ELSE FirstMatch(Tail(rows), day)

\* Variant of today_topic that falls back to the first row of the sheet when
\* no row matches the date.
today_topic_FirstRowFallback(day) ==
    IF FirstMatch(CourseSheet, day) = <<>>
    THEN FirstMatch(CourseSheet, CourseSheet[1].date)
    ELSE FirstMatch(CourseSheet, day)

today_topic(day) == FirstMatch(CourseSheet, day)

\* The phone kept for a roster row.
NormalizePhone(cell) == LStrip(Str(cell), {"+"})

RECURSIVE RosterOf(_, _)
RosterOf(rows, class_name) ==
    IF rows = <<>> THEN <<>>
    ELSE (IF Head(rows).class = class_name
          THEN << [name |-> Head(rows).name,
                   phone |-> NormalizePhone(Head(rows).number)] >>
          ELSE <<>>) \o RosterOf(Tail(rows), class_name)

students_for_class(class_name) == RosterOf(StudentSheet, class_name)

\* The recipient identifier the push job sends to.
PushJid(phone) ==
    IF impl = "main" THEN USER_ID_HEADER \o phone
    ELSE USER_ID_HEADER \o phone \o JID_SUFFIX

\* The body of the push message, as the fragments the f-string joins.
PushBody(name, clas, teacher, topic) ==
    IF impl = "main"
    THEN << "Hello ", name, ", Today in class *", clas, "* with ", teacher,
            ", in mathematics we covered: *", topic,
            "* Need a recap or have doubts? Just reply here!" >>
    ELSE << "Hello ", name, ", Today in class *", clas, "* with ", teacher,
            ", we covered: *", topic,
            "* Need a recap or have doubts? Just reply here!" >>

\* --------------------------------------------------------- session stores
EmptyStore == [k \in {} |-> k]

Put(store, k, v) ==
    [x \in (DOMAIN store) \cup {k} |-> IF x = k THEN v ELSE store[x]]

\* The store of the running implementation.
Store == IF impl = "main" THEN chat_pool ELSE session_service

\* new_chat / create_session: a fresh session seeded for `lesson`.
NewSession(id, lesson) == [id |-> id, prompt |-> lesson, turns |-> 0]

\* dict.setdefault(k, v): keep an existing entry, insert v otherwise.
SetDefault(store, k, v) == IF k \in DOMAIN store THEN store ELSE Put(store, k, v)

\* ----------------------------------------------------------- observation
NullMsg == [kind |-> "null", from |-> <<>>, body |-> <<>>, isGroupMsg |-> FALSE]

NoObs ==
    [op |-> "none", startup |-> FALSE, msg |-> NullMsg, outcome |-> "returned",
     reads |-> 0, readOk |-> TRUE, info |-> <<>>, day |-> 0,
     llm |-> <<>>, llmOut |-> "", replies |-> <<>>, replyFails |-> 0,
     sends |-> <<>>, sendFailed |-> {},
     createFailed |-> {}, before |-> EmptyStore]

Obs(op) == [NoObs EXCEPT !.op = op, !.day = today, !.before = Store]

\* ------------------------------------------------------------- push job
\* main.py: one sendText per roster row of the lesson just read.
MainSends(info) ==
    LET roster == students_for_class(info.class)
    IN  [i \in 1..Len(roster) |->
            [to |-> PushJid(roster[i].phone),
             body |-> PushBody(roster[i].name, info.class, info.teacher,
                               info.topic)]]

\* The lesson whose fields the ADK push job formats and stores: the
\* module-level `data` read at import, not the `info` it has just read.
AdkPushLesson(info) == data[1]

RECURSIVE AdkCreateAll(_, _, _, _, _, _)
\* adk: the session store after the loop; create_session raises for the
\* rows in createFail and installs a fresh session for the others.
AdkCreateAll(store, roster, i, id, lesson, createFail) ==
    IF i > Len(roster) THEN store
    ELSE IF i \in createFail
         THEN AdkCreateAll(store, roster, i + 1, id, lesson, createFail)
         ELSE AdkCreateAll(Put(store, PushJid(roster[i].phone),
                               NewSession(id, lesson)),
                           roster, i + 1, id + 1, lesson, createFail)

RECURSIVE AdkSends(_, _, _, _)
\* adk: sendText is reached only when create_session did not raise.
AdkSends(roster, i, lesson, createFail) ==
    IF i > Len(roster) THEN <<>>
    ELSE (IF i \in createFail THEN <<>>
          ELSE << [to |-> PushJid(roster[i].phone),
                   body |-> PushBody(roster[i].name, lesson.class,
                                     lesson.teacher, lesson.topic)] >>)
         \o AdkSends(roster, i + 1, lesson, createFail)

main_push_daily_summary(readOk, startup) ==
    LET info == today_topic(today)
        obs  == [Obs("push") EXCEPT !.startup = startup, !.reads = 1,
                                    !.readOk = readOk]
    IN  /\ UNCHANGED <<chat_pool, session_service, nextId>>
        /\ IF ~readOk
           THEN last' = [obs EXCEPT !.outcome = "raised"]
           ELSE IF info = <<>>
           THEN last' = obs
           ELSE \E sendFail \in SUBSET (1..Len(MainSends(info[1]))) :
                    last' = [obs EXCEPT !.info = info,
                                        !.sends = MainSends(info[1]),
                                        !.sendFailed = sendFail]

adk_push_daily_summary(readOk, startup) ==
    LET info == today_topic(today)
        obs  == [Obs("push") EXCEPT !.startup = startup, !.reads = 1,
                                    !.readOk = readOk]
    IN  /\ UNCHANGED chat_pool
        /\ IF ~readOk
           THEN /\ last' = [obs EXCEPT !.outcome = "raised"]
                /\ UNCHANGED <<session_service, nextId>>
           ELSE IF info = <<>>
           THEN /\ last' = obs
                /\ UNCHANGED <<session_service, nextId>>
           ELSE LET lesson == AdkPushLesson(info[1])
                    roster == students_for_class(lesson.class)
                    all    == 1..Len(roster)
                IN  \E createFail \in SUBSET all :
                    \E sendFail \in SUBSET (all \ createFail) :
                        /\ session_service' =
                               AdkCreateAll(session_service, roster, 1, nextId,
                                            lesson, createFail)
                        /\ nextId' = nextId + Cardinality(all \ createFail)
                        /\ last' = [obs EXCEPT
                                      !.info = info,
                                      !.sends = AdkSends(roster, 1, lesson,
                                                         createFail),
                                      !.sendFailed = sendFail,
                                      !.createFailed = createFail]

push_daily_summary(readOk, startup) ==
    IF impl = "main" THEN main_push_daily_summary(readOk, startup)
    ELSE adk_push_daily_summary(readOk, startup)

\* ------------------------------------------------------ inbound messages
\* Variant of the guard that tests only `not message`.
MsgIgnoredNullOnly(msg) == msg.kind = "null"

\* `if not message or message.get("isGroupMsg"): return`
MsgIgnored(msg) == msg.kind = "null" \/ msg.isGroupMsg

\* adk: `if not text: return`
AdkEmptyIgnored(text) == text = <<>>

Replies(jid, texts) == [i \in 1..Len(texts) |-> [to |-> jid, text |-> texts[i]]]

LlmOutcomes == IF impl = "main" THEN {"answer", "raise"}
               ELSE {"answer", "nofinal", "raise"}

\* main.py: the callback the WhatsApp client invokes per message.  readOk,
\* llmOut and replyOk are the outcomes of the spreadsheet read, of
\* chat.send_message and of client.reply.
incoming_listener(msg) ==
    LET jid  == msg.from
        text == Strip(msg.body)
        info == today_topic(today)
        obs  == [Obs("msg") EXCEPT !.msg = msg]
    IN  /\ UNCHANGED session_service
        /\ IF MsgIgnored(msg)
           THEN /\ last' = obs
                /\ UNCHANGED <<chat_pool, nextId>>
           ELSE \E readOk \in BOOLEAN :
                LET read == [obs EXCEPT !.reads = 1, !.readOk = readOk]
                IN  IF ~readOk
                    THEN /\ last' = [read EXCEPT !.outcome = "raised"]
                         /\ UNCHANGED <<chat_pool, nextId>>
                    ELSE \E replyOk \in BOOLEAN :
                         LET end == IF replyOk THEN "returned" ELSE "raised"
                             fails == IF replyOk THEN 0 ELSE 1
                         IN  IF info = <<>>
                             THEN /\ last' = [read EXCEPT
                                       !.replies = Replies(jid, <<NoClassReply>>),
                                       !.replyFails = fails,
                                       !.outcome = end]
                                  /\ UNCHANGED <<chat_pool, nextId>>
                             ELSE \E llmOut \in LlmOutcomes :
                                  LET pool == SetDefault(chat_pool, jid,
                                                NewSession(nextId, info[1]))
                                      chat == pool[jid]
                                      answer == IF llmOut = "answer"
                                                THEN LlmAnswer
                                                ELSE MainApology
                                  IN  /\ chat_pool' =
                                           IF llmOut = "answer"
                                           THEN [pool EXCEPT
                                                   ![jid].turns = @ + 1]
                                           ELSE pool
                                      /\ nextId' = nextId + 1
                                      /\ last' = [read EXCEPT
                                           !.info = info,
                                           !.llm = << [session |-> chat.id,
                                                       text |-> text] >>,
                                           !.llmOut = llmOut,
                                           !.replies = Replies(jid, <<answer>>),
                                           !.replyFails = fails,
                                           !.outcome = end]

\* adk: the coroutine scheduled on the loop per message.  replyOk is the
\* outcome of the client.reply inside the `try`, reply2Ok of the one in the
\* outer `except`.
handle_message(msg) ==
    LET jid   == msg.from
        text  == Strip(msg.body)
        info  == today_topic(today)
        obs   == [Obs("msg") EXCEPT !.msg = msg]
    IN  /\ UNCHANGED <<chat_pool, nextId>>
        /\ IF MsgIgnored(msg) \/ AdkEmptyIgnored(text)
           THEN /\ last' = obs
                /\ UNCHANGED session_service
           ELSE \E readOk \in BOOLEAN, reply2Ok \in BOOLEAN :
                LET read == [obs EXCEPT !.reads = 1, !.readOk = readOk]
                IN  IF ~readOk
                    THEN /\ last' = [read EXCEPT
                              !.replies = Replies(jid, <<AdkHandlerError>>),
                              !.replyFails = IF reply2Ok THEN 0 ELSE 1,
                              !.outcome = IF reply2Ok THEN "returned"
                                          ELSE "raised"]
                         /\ UNCHANGED session_service
                    ELSE \E replyOk \in BOOLEAN :
                         LET end == IF replyOk \/ reply2Ok THEN "returned"
                                    ELSE "raised"
                             tried(t) ==
                                 IF replyOk THEN Replies(jid, <<t>>)
                                 ELSE Replies(jid, <<t, AdkHandlerError>>)
                             fails == IF replyOk THEN 0
                                      ELSE IF reply2Ok THEN 1 ELSE 2
                         IN  IF info = <<>>
                             THEN /\ last' = [read EXCEPT
                                       !.replies = tried(NoClassReply),
                                       !.replyFails = fails,
                                       !.outcome = end]
                                  /\ UNCHANGED session_service
                             ELSE \E llmOut \in LlmOutcomes :
                                  LET found == jid \in DOMAIN session_service
                                      \* without a session runner.run cannot
                                      \* answer: it raises or ends with no
                                      \* final response
                                      out == IF found \/ llmOut # "answer"
                                             THEN llmOut ELSE "raise"
                                      reply_text ==
                                          IF out = "answer" THEN LlmAnswer
                                          ELSE IF out = "nofinal"
                                          THEN AdkNoFinal
                                          ELSE AdkLlmError
                                  IN  /\ session_service' =
                                           IF out = "answer"
                                           THEN [session_service EXCEPT
                                                   ![jid].turns = @ + 1]
                                           ELSE session_service
                                      /\ last' = [read EXCEPT
                                           !.info = info,
                                           !.llm = << [session |->
                                                IF found
                                                THEN session_service[jid].id
                                                ELSE 0,
                                              text |-> text] >>,
                                           !.llmOut = out,
                                           !.replies = tried(reply_text),
                                           !.replyFails = fails,
                                           !.outcome = end]

\* ------------------------------------------------------------- inputs
SenderAsha == USER_ID_HEADER \o <<"9", "8", "7", "6">> \o JID_SUFFIX
SenderOther == USER_ID_HEADER \o <<"5", "5">> \o JID_SUFFIX
Senders == {SenderAsha, SenderOther}

Bodies == { <<>>, <<" ", "\n">>, <<" ", "h", "i", "\n">>, <<"<emoji>">> }

Messages ==
    {NullMsg}
    \cup [kind : {"msg"}, from : {SenderAsha}, body : {<<"h", "i">>},
          isGroupMsg : {TRUE}]
    \cup [kind : {"msg"}, from : Senders, body : Bodies, isGroupMsg : {FALSE}]

\* History of the sessions used: the first session (identity and prompt)
\* each sender's text was forwarded to.
FirstUse(u, obs, store) ==
    IF obs.llm # <<>> /\ obs.llm[1].session # 0 /\ obs.msg.from \notin DOMAIN u
    THEN Put(u, obs.msg.from, [id |-> obs.llm[1].session,
                               prompt |-> store[obs.msg.from].prompt])
    ELSE u

\* A thread executes nothing, the push job, or the handler of a message.
Idle == [task |-> "idle", msg |-> NullMsg]
Pushing == [task |-> "push", msg |-> NullMsg]
Handling(msg) == [task |-> "msg", msg |-> msg]

\* --------------------------------------------------------------- actions
Init ==
    /\ impl \in {"main", "adk"}
    /\ pc = "boot"
    /\ crash = ""
    /\ today \in 1..MaxDay
    /\ data = <<>>
    /\ chat_pool = EmptyStore
    /\ session_service = EmptyStore
    /\ nextId = 1
    /\ nMsgs = 0
    /\ nPush = 0
    /\ last = NoObs
    /\ used = EmptyStore
    /\ onLoop = Idle
    /\ onClient = Idle
    /\ queue = <<>>

\* Module-level code up to the registration of the message callback.  adk
\* reads today's lesson into `data` and subscripts it.
Boot ==
    /\ pc = "boot"
    /\ UNCHANGED <<impl, today, chat_pool, session_service, nextId, nMsgs,
                   nPush, used, sched>>
    /\ IF impl = "main"
       THEN /\ pc' = "startpush"
            /\ last' = Obs("boot")
            /\ UNCHANGED <<crash, data>>
       ELSE \E readOk \in BOOLEAN :
            LET obs == [Obs("boot") EXCEPT !.reads = 1, !.readOk = readOk]
            IN  IF ~readOk
                THEN /\ pc' = "crashed"
                     /\ crash' = "spreadsheet error"
                     /\ last' = [obs EXCEPT !.outcome = "raised"]
                     /\ UNCHANGED data
                ELSE IF today_topic(today) = <<>>
                THEN /\ pc' = "crashed"
                     /\ crash' = "TypeError: 'NoneType' object is not subscriptable"
                     /\ last' = [obs EXCEPT !.outcome = "raised"]
                     /\ UNCHANGED data
                ELSE /\ pc' = "startpush"
                     /\ data' = today_topic(today)
                     /\ last' = [obs EXCEPT !.info = today_topic(today)]
                     /\ UNCHANGED crash

\* The push run at startup: main.py runs it to completion before the
\* scheduler starts, adk as the loop's first task.
StartupPushRun ==
    /\ pc = "startpush"
    /\ UNCHANGED <<impl, today, data, nMsgs, nPush, used>>
    /\ \E readOk \in BOOLEAN :
          /\ push_daily_summary(readOk, TRUE)
          /\ IF impl = "main" /\ ~readOk
             THEN pc' = "crashed" /\ crash' = "spreadsheet error"
             ELSE pc' = "running" /\ UNCHANGED crash

StartupPush == StartupPushRun /\ UNCHANGED sched

\* The scheduler's daily cron job.
CronPushRun ==
    /\ pc = "running"
    /\ nPush < MaxPush
    /\ nPush' = nPush + 1
    /\ UNCHANGED <<impl, pc, crash, today, data, nMsgs, used>>
    /\ \E readOk \in BOOLEAN : push_daily_summary(readOk, FALSE)

CronPush == CronPushRun /\ UNCHANGED sched

\* One invocation of the message handler, from its first to its last line.
MessageRun(msg) ==
    /\ pc \in {"startpush", "running"}
    /\ nMsgs < MaxMsgs
    /\ nMsgs' = nMsgs + 1
    /\ UNCHANGED <<impl, pc, crash, today, data, nPush>>
    /\ IF impl = "main" THEN incoming_listener(msg) ELSE handle_message(msg)
    /\ used' = FirstUse(used, last', Store')

\* The WhatsApp client delivers one inbound message to the callback.
Message == \E msg \in Messages : MessageRun(msg) /\ UNCHANGED sched

\* Midnight passes: datetime.now() reports the next day.
NextDay ==
    /\ pc = "running"
    /\ today < MaxDay
    /\ today' = today + 1
    /\ UNCHANGED <<impl, pc, crash, data, chat_pool, session_service, nextId,
                   nMsgs, nPush, last, used, sched>>

Next == Boot \/ StartupPush \/ CronPush \/ Message \/ NextDay

Spec == Init /\ [][Next]_vars

\* ------------------------------------------------------ threads and loop
\* The same operations with their extent in time: each begins, makes its
\* blocking calls (spreadsheet, LLM, WhatsApp client) and ends, on the thread
\* that runs it.  The push job is a coroutine of the asyncio loop in both
\* programs.  The client invokes the registered callback on its own thread:
\* main.py registers incoming_listener itself, adk registers a lambda that
\* hands the coroutine to the loop with run_coroutine_threadsafe.
Others == <<impl, pc, crash, today, data, chat_pool, session_service, nextId,
            nMsgs, nPush, last, used>>

\* Messages accepted and not yet handled to the end.
InFlight ==
    Len(queue) + (IF onLoop.task = "msg" THEN 1 ELSE 0)
               + (IF onClient.task = "msg" THEN 1 ELSE 0)

StartupPushBegin ==
    /\ pc = "startpush"
    /\ onLoop = Idle
    /\ onLoop' = Pushing
    /\ UNCHANGED <<Others, onClient, queue>>

StartupPushEnd ==
    /\ onLoop = Pushing
    /\ StartupPushRun
    /\ onLoop' = Idle
    /\ UNCHANGED <<onClient, queue>>

\* The scheduler creates the cron job's coroutine as a task of the loop.
CronPushBegin ==
    /\ pc = "running"
    /\ nPush < MaxPush
    /\ onLoop = Idle
    /\ onLoop' = Pushing
    /\ UNCHANGED <<Others, onClient, queue>>

CronPushEnd ==
    /\ onLoop = Pushing
    /\ CronPushRun
    /\ onLoop' = Idle
    /\ UNCHANGED <<onClient, queue>>

\* main.py: the client's thread enters incoming_listener.
ListenerBegin ==
    /\ impl = "main"
    /\ pc \in {"startpush", "running"}
    /\ onClient = Idle
    /\ nMsgs + InFlight < MaxMsgs
    /\ \E msg \in Messages : onClient' = Handling(msg)
    /\ UNCHANGED <<Others, onLoop, queue>>

ListenerEnd ==
    /\ impl = "main"
    /\ onClient.task = "msg"
    /\ MessageRun(onClient.msg)
    /\ onClient' = Idle
    /\ UNCHANGED <<onLoop, queue>>

\* adk: the client's thread runs the lambda, which only schedules.
Dispatch ==
    /\ impl = "adk"
    /\ pc \in {"startpush", "running"}
    /\ nMsgs + InFlight < MaxMsgs
    /\ \E msg \in Messages : queue' = Append(queue, msg)
    /\ UNCHANGED <<Others, onLoop, onClient>>

\* adk: the loop starts the next scheduled handle_message coroutine.
HandleBegin ==
    /\ impl = "adk"
    /\ pc \in {"startpush", "running"}
    /\ onLoop = Idle
    /\ queue # <<>>
    /\ onLoop' = Handling(Head(queue))
    /\ queue' = Tail(queue)
    /\ UNCHANGED <<Others, onClient>>

HandleEnd ==
    /\ impl = "adk"
    /\ onLoop.task = "msg"
    /\ MessageRun(onLoop.msg)
    /\ onLoop' = Idle
    /\ UNCHANGED <<onClient, queue>>

NextThreads ==
    \/ Boot
    \/ StartupPushBegin \/ StartupPushEnd
    \/ CronPushBegin \/ CronPushEnd
    \/ ListenerBegin \/ ListenerEnd
    \/ Dispatch \/ HandleBegin \/ HandleEnd
    \/ NextDay

SpecThreads == Init /\ [][NextThreads]_vars

\* ----------------------------------------------------------------- claims
\* Vocabulary of the claims, stated on the sheets and the messages themselves.
NoRowFor(day) == \A i \in DOMAIN CourseSheet : CourseSheet[i].date # day
IsPrivate(msg) == msg.kind = "msg" /\ ~msg.isGroupMsg
Blank(body) == \A i \in DOMAIN body : body[i] \in Whitespace
Contains(body, fragment) == \E i \in DOMAIN body : body[i] = fragment
ClassRows(class_name) ==
    {i \in DOMAIN StudentSheet : StudentSheet[i].class = class_name}
\* A private message the implementation does not drop: adk drops blank ones.
Handled(msg) == IsPrivate(msg) /\ (impl = "adk" => ~Blank(msg.body))
\* The phone inside a recipient identifier: what follows the prefix (and,
\* in adk, precedes the domain suffix).
PhoneOf(to) ==
    IF impl = "adk" THEN SubSeq(to, Len(USER_ID_HEADER) + 1, Len(to) - 1)
    ELSE SubSeq(to, Len(USER_ID_HEADER) + 1, Len(to))

\* C1: in every push run that finds a lesson, exactly one sendText is
\* attempted for each student of the roster of today's class, in both
\* implementations and on every run, whatever fails for another student.
C1_OneSendPerStudent ==
    (last.op = "push" /\ last.readOk /\ ~NoRowFor(last.day)) =>
        LET roster == ClassRows(today_topic(last.day)[1].class)
        IN  /\ Len(last.sends) = Cardinality(roster)
            /\ \A r \in roster :
                  Cardinality({i \in DOMAIN last.sends :
                      Contains(last.sends[i].body, StudentSheet[r].name)}) = 1

\* C2: when the schedule has no row for today, a push run performs zero
\* sends, and every handled private message is answered with the fixed
\* "No class today" reply, with no LLM call and no session created.
C2_NoLessonNoSendFixedReply ==
    /\ (last.op = "push" /\ NoRowFor(last.day)) => last.sends = <<>>
    /\ (last.op = "msg" /\ Handled(last.msg) /\ last.readOk
           /\ NoRowFor(last.day)) =>
          /\ last.replies # <<>>
          /\ last.replies[1] = [to |-> last.msg.from, text |-> NoClassReply]
          /\ \A i \in DOMAIN last.replies :
                i > 1 => (impl = "adk" /\ last.replies[i].text = AdkHandlerError)
          /\ last.llm = <<>>
          /\ Store = last.before

\* C2 witness: a private message on a day without lesson got the fixed
\* reply and its sender has no session.
C2_Witness ==
    /\ last.op = "msg" /\ IsPrivate(last.msg) /\ NoRowFor(last.day)
    /\ last.replies # <<>> /\ last.replies[1].text = NoClassReply
    /\ last.msg.from \notin DOMAIN Store

\* C3: a private message whose body is empty or whitespace-only never causes
\* an LLM call; the handler sends the fixed "Please send your question in
\* words" reply to the sender.
C3_BlankShortCircuits ==
    (last.op = "msg" /\ IsPrivate(last.msg) /\ Blank(last.msg.body)) =>
        /\ last.llm = <<>>
        /\ last.replies = <<[to |-> last.msg.from, text |-> WordsReply]>>

\* C4: every message of a recipient is forwarded to the session the
\* recipient's first message used; that session is never replaced in the
\* store.
C4_SameSessionReused ==
    /\ \A k \in DOMAIN used :
          k \in DOMAIN Store /\ Store[k].id = used[k].id
    /\ (last.op = "msg" /\ last.llm # <<>> /\ last.llm[1].session # 0) =>
          last.llm[1].session = used[last.msg.from].id

\* C5: the handler never lets an exception escape, whatever fails among the
\* spreadsheet read, the LLM call and the reply send; when the LLM call
\* fails the sender is sent the fixed apology.
C5_HandlerNeverRaises ==
    last.op = "msg" =>
        /\ last.outcome = "returned"
        /\ last.llmOut = "raise" =>
              last.replies[1] =
                  [to |-> last.msg.from,
                   text |-> IF impl = "main" THEN MainApology ELSE AdkLlmError]

\* C6: the absence of a lesson for today is not an error at any place the
\* lesson is looked up: startup, the push job and the handler continue
\* without raising, and a process started on such a day reaches the running
\* state.
C6_NoLessonIsNotAnError ==
    (last.op \in {"boot", "push", "msg"} /\ last.readOk /\ NoRowFor(last.day)
        /\ last.replyFails = 0) =>
        /\ last.outcome = "returned"
        /\ pc # "crashed"

\* C7: in every push run each message carries the student's name and the
\* topic, class and teacher of the lesson read in that same run, and goes to
\* the roster of that lesson's class.
C7_PushUsesLessonOfThisRun ==
    (last.op = "push" /\ last.info # <<>>) =>
        \A i \in DOMAIN last.sends :
            /\ Contains(last.sends[i].body, last.info[1].topic)
            /\ Contains(last.sends[i].body, last.info[1].class)
            /\ Contains(last.sends[i].body, last.info[1].teacher)
            /\ \E r \in ClassRows(last.info[1].class) :
                  Contains(last.sends[i].body, StudentSheet[r].name)

\* C8: a group message or a null message is ignored entirely: no reply, no
\* spreadsheet read, no LLM call, and the conversation store is unchanged.
C8_GroupAndNullIgnored ==
    (last.op = "msg" /\ (last.msg.kind = "null" \/ last.msg.isGroupMsg)) =>
        /\ last.replies = <<>>
        /\ last.reads = 0
        /\ last.llm = <<>>
        /\ last.outcome = "returned"
        /\ Store = last.before

\* C8 witness: a group message arrived from a sender who has a session.
C8_Witness ==
    /\ last.op = "msg" /\ last.msg.kind = "msg" /\ last.msg.isGroupMsg
    /\ last.msg.from \in DOMAIN Store
    /\ Store[last.msg.from].turns > 0

\* C9: the phone used to build a recipient identifier consists of digits
\* only, and the identifier is the fixed prefix followed by that phone.
C9_PhoneDigitsOnly ==
    last.op = "push" =>
        \A i \in DOMAIN last.sends :
            LET to == last.sends[i].to
            IN  /\ SubSeq(to, 1, Len(USER_ID_HEADER)) = USER_ID_HEADER
                /\ \A j \in DOMAIN PhoneOf(to) : PhoneOf(to)[j] \in Digits

\* C10: the first handled message of a recipient, with a lesson scheduled,
\* creates the recipient's session seeded for the lesson of that moment; the
\* recipient then keeps a session with that prompt for the process lifetime.
C10_SessionCreatedOnFirstMessage ==
    /\ (last.op = "msg" /\ Handled(last.msg) /\ last.info # <<>>) =>
          /\ last.msg.from \in DOMAIN Store
          /\ last.msg.from \notin DOMAIN last.before =>
                Store[last.msg.from].prompt = last.info[1]
    /\ \A k \in DOMAIN used :
          k \in DOMAIN Store /\ Store[k].prompt = used[k].prompt

\* C11: a push run and a handler invocation, and any two handler
\* invocations, never execute at the same time: at most one of them is
\* between its first and its last line at any moment.
C11_PushAndHandlerExclusive ==
    ~(onLoop.task # "idle" /\ onClient.task # "idle")

=============================================================================
